---------------------------- MODULE Spec2Model ----------------------------
(***************************************************************************)
(* Model of failover.py: a Lambda handler that swaps the Route53 failover  *)
(* PRIMARY/SECONDARY record pair on CloudWatch alarm notifications that    *)
(* arrive through SNS.                                                     *)
(*                                                                         *)
(* Strings the code searches or splits (alarm names, region labels, the    *)
(* record name) are sequences of one-character strings.  Health values are *)
(* hundredths (0.5 is 50).  An invocation is split at its two blocking     *)
(* calls: the CloudWatch query and the Route53 change.                     *)
(***************************************************************************)
EXTENDS Integers, Sequences, FiniteSets, TLC

(* ------------------------------ bounds -------------------------------- *)

\* Number of invocations that may overlap in SpecConcurrent.
NumInv == 2
\* Longest list of datapoints a metrics query returns.
MaxSamples == 2
\* Number of most recent successful publishes remembered in history.
HistoryLen == 3

Procs == 1..NumInv

(* --------------------------- configuration ---------------------------- *)

HOSTED_ZONE_ID == "Z-HOSTED"
PRIMARY_SET_ID == "primary-set"
SECONDARY_SET_ID == "secondary-set"
PRIMARY_ALB_DNS == "alb-east.example"
PRIMARY_ALB_ZONE_ID == "Z-ALB-EAST"
SECONDARY_ALB_DNS == "alb-west.example"
SECONDARY_ALB_ZONE_ID == "Z-ALB-WEST"
PRIMARY_REGION_LABEL == <<"e", "a">>
SECONDARY_REGION_LABEL == <<"w", "e">>

\* RECORD_NAME values: a fully qualified name, as the module docstring
\* documents.
FqdnRecordNames == { <<"w", ".", "x", ".", "c">> }

VARIABLES
    RECORD_NAME,  \* the configured record name (fixed after start)
    dns,          \* the hosted zone: the set of resource record sets
    history,      \* the last HistoryLen successful change batches
    pc,           \* per invocation: "idle", "health", "publish", "done"
    event,        \* per invocation: the inbound event
    queried,      \* per invocation: region labels passed to the Health Oracle
    response,     \* per invocation: what the metrics query did
    sample,       \* per invocation: what the Health Oracle returned
    published,    \* per invocation: the publish calls issued
    change,       \* per invocation: what the Route53 call did:
                  \* "none", "ok", "failed"
    outcome,      \* per invocation: "none", "returned", "raised"
    exc,          \* per invocation: the exception raised into the caller
    log           \* per invocation: the log entries written

vars == <<RECORD_NAME, dns, history, pc, event, queried, response, sample,
          published, change, outcome, exc, log>>

(* --------------------------- Python values ---------------------------- *)

PyNone == [type |-> "NoneType", str |-> <<>>, int |-> 0]
PyStr(s) == [type |-> "str", str |-> s, int |-> 0]
PyInt(n) == [type |-> "int", str |-> <<>>, int |-> n]

\* Python truth value of None, a str or an int.
PyTruthy(v) ==
    CASE v.type = "NoneType" -> FALSE
      [] v.type = "str" -> Len(v.str) > 0
      [] OTHER -> v.int # 0

\* sub in s, for two str values.
Contains(sub, s) ==
    \E i \in 0..(Len(s) - Len(sub)) : SubSeq(s, i + 1, i + Len(sub)) = sub

\* A health value: absent (None) or present with a value in hundredths.
None == [present |-> FALSE, value |-> 0]
Value(v) == [present |-> TRUE, value |-> v]

(* ------------------------------- JSON --------------------------------- *)

\* A decoded JSON value.  len is the number of characters, elements or
\* keys, or the number itself; AlarmName and NewStateValue are what
\* dict.get returns for these keys (PyNone, "None" when the key is missing).
JNull == [type |-> "null", len |-> 0, AlarmName |-> PyNone,
          NewStateValue |-> "None"]
JString(n) == [type |-> "string", len |-> n, AlarmName |-> PyNone,
               NewStateValue |-> "None"]
JNumber(n) == [type |-> "number", len |-> n, AlarmName |-> PyNone,
               NewStateValue |-> "None"]
JList(n) == [type |-> "list", len |-> n, AlarmName |-> PyNone,
             NewStateValue |-> "None"]
JObject(name, state, extra) ==
    [type |-> "object",
     len |-> (IF name = PyNone THEN 0 ELSE 1)
             + (IF state = "None" THEN 0 ELSE 1) + extra,
     AlarmName |-> name, NewStateValue |-> state]

\* Python truth value of a decoded JSON value.
JTruthy(v) == v.type # "null" /\ v.len # 0

AlarmNames ==
    { PyNone, PyStr(<<>>), PyInt(7),
      PyStr(<<"d", "-", "e", "a">>),        \* the primary region's alarm
      PyStr(<<"d", "-", "w", "e">>),        \* the secondary region's alarm
      PyStr(<<"d", "-", "w", "e", "a">>),   \* another name holding the label
      PyStr(<<"d", "-", "e">>) }

StateValues == { "ALARM", "OK", "INSUFFICIENT_DATA", "None", "other" }

JsonValues ==
    { JNull, JString(0), JString(3), JNumber(0), JNumber(7), JList(0),
      JList(2), JObject(PyNone, "None", 1) }
    \cup { JObject(n, s, 0) : n \in AlarmNames, s \in StateValues }

\* The text of an SNS Message: valid JSON with its decoded value, or not.
BadJson == [valid |-> FALSE, json |-> JNull]
Json(v) == [valid |-> TRUE, json |-> v]

\* One entry of event['Records'].
Record(hasSns, hasMessage, message) ==
    [hasSns |-> hasSns, hasMessage |-> hasMessage, Message |-> message]

\* The inbound envelope.
Envelope(hasRecords, records) ==
    [hasRecords |-> hasRecords, Records |-> records]

Events ==
    { Envelope(FALSE, <<>>), Envelope(TRUE, <<>>),
      Envelope(TRUE, <<Record(FALSE, FALSE, BadJson)>>),
      Envelope(TRUE, <<Record(TRUE, FALSE, BadJson)>>),
      Envelope(TRUE, <<Record(TRUE, TRUE, BadJson)>>),
      Envelope(TRUE, <<Record(TRUE, TRUE,
                              Json(JObject(PyStr(<<"d", "-", "e", "a">>),
                                           "ALARM", 0))),
                       Record(FALSE, FALSE, BadJson)>>) }
    \cup { Envelope(TRUE, <<Record(TRUE, TRUE, Json(v))>>) : v \in JsonValues }

\* The events SpecConcurrent delivers: well-formed alarm documents.
AlarmEvent(name, state) ==
    Envelope(TRUE, <<Record(TRUE, TRUE, Json(JObject(PyStr(name), state, 0)))>>)
AlarmEvents ==
    { AlarmEvent(<<"d", "-", "e", "a">>, "ALARM"),
      AlarmEvent(<<"d", "-", "e", "a">>, "OK"),
      AlarmEvent(<<"d", "-", "w", "e">>, "ALARM") }

(* ------------------------------ logging ------------------------------- *)

LogEntry(level, msg, e) == [level |-> level, msg |-> msg, exc |-> e]
Info(msg) == LogEntry("INFO", msg, "")
Warning(msg) == LogEntry("WARNING", msg, "")
Error(msg) == LogEntry("ERROR", msg, "")
\* logger.exception: an ERROR entry carrying the exception.
Exception(msg, e) == LogEntry("ERROR", msg, e)


(* --------------------------- Health Oracle ---------------------------- *)

HealthValues == { 50, 51, 90 }
Timestamps == { 1, 2 }

\* A datapoint of the metrics response; Average may be missing.
Datapoints ==
    [Timestamp : Timestamps, Average : {None} \cup { Value(v) : v \in HealthValues }]

SeqsUpTo(S, n) == UNION { [1..k -> S] : k \in 0..n }

\* What cloudwatch.get_metric_statistics does: raise, or return datapoints.
Responses ==
    { [ok |-> FALSE, Datapoints |-> <<>>] }
    \cup { [ok |-> TRUE, Datapoints |-> d] : d \in SeqsUpTo(Datapoints, MaxSamples) }

\* Responses with at most one datapoint (SpecConcurrent).
ShortResponses ==
    { r \in Responses :
        Len(r.Datapoints) <= 1 /\ \A i \in DOMAIN r.Datapoints :
                                     r.Datapoints[i].Timestamp = 1 }

\* Insert d after every element whose Timestamp is not greater (stable).
RECURSIVE Insert(_, _)
Insert(d, sortedSeq) ==
    IF sortedSeq = <<>> THEN <<d>>
    ELSE IF d.Timestamp < Head(sortedSeq).Timestamp THEN <<d>> \o sortedSeq
    ELSE <<Head(sortedSeq)>> \o Insert(d, Tail(sortedSeq))

\* sorted(datapoints, key=lambda d: d['Timestamp'])
RECURSIVE sorted(_)
sorted(datapoints) ==
    IF datapoints = <<>> THEN <<>>
    ELSE Insert(datapoints[Len(datapoints)],
                sorted(SubSeq(datapoints, 1, Len(datapoints) - 1)))

\* Mutant: no datapoint counts as fully healthy.
get_latest_region_health_AssumeHealthy(resp) ==
    IF ~resp.ok
      THEN [value |-> None,
            log |-> <<Exception("Failed to get metric", "ClientError")>>]
    ELSE IF resp.Datapoints = <<>>
      THEN [value |-> Value(100), log |-> <<>>]
    ELSE LET s == sorted(resp.Datapoints)
             latest == s[Len(s)]
         IN  [value |-> latest.Average, log |-> <<>>]

\* Mutant: the failure of the query is swallowed without a log entry.
get_latest_region_health_Silent(resp) ==
    IF ~resp.ok \/ resp.Datapoints = <<>>
      THEN [value |-> None, log |-> <<>>]
    ELSE LET s == sorted(resp.Datapoints)
             latest == s[Len(s)]
         IN  [value |-> latest.Average, log |-> <<>>]

\* Mutant: the last datapoint in the returned order is taken, unsorted.
get_latest_region_health_LastReturned(resp) ==
    IF ~resp.ok
      THEN [value |-> None,
            log |-> <<Exception("Failed to get metric", "ClientError")>>]
    ELSE IF resp.Datapoints = <<>>
      THEN [value |-> None, log |-> <<>>]
    ELSE [value |-> resp.Datapoints[Len(resp.Datapoints)].Average,
          log |-> <<>>]

\* get_latest_region_health, given what the metrics query does:
\* the value returned and the log entries written.
get_latest_region_health(resp) ==
    IF ~resp.ok
      THEN [value |-> None,
            log |-> <<Exception("Failed to get metric", "ClientError")>>]
    ELSE IF resp.Datapoints = <<>>
      THEN [value |-> None, log |-> <<>>]
    ELSE LET s == sorted(resp.Datapoints)
             latest == s[Len(s)]
         IN  [value |-> latest.Average, log |-> <<>>]

\* The health threshold of lambda_handler, in hundredths.
HealthThreshold == 50

\* Mutant: the comparison is strict.
UnhealthyBelow(h) == h.value < HealthThreshold

\* sec_health <= 0.5 / pri_health <= 0.5, for a present value.
Unhealthy(h) == h.value <= HealthThreshold

(* -------------------------- Record Publisher -------------------------- *)

AliasTarget(zone, name) ==
    [HostedZoneId |-> zone, DNSName |-> name, EvaluateTargetHealth |-> FALSE]

RecordTTL == 60

ResourceRecordSet(name, setId, failover, alias) ==
    [Name |-> name, Type |-> "A", SetIdentifier |-> setId,
     Failover |-> failover, TTL |-> RecordTTL, AliasTarget |-> alias]

Change(rrset) == [Action |-> "UPSERT", ResourceRecordSet |-> rrset]

\* Mutant: the changes list holds the PRIMARY entry only.
ChangePairPrimaryOnly(name, primary_alias, secondary_alias, primary_id, secondary_id) ==
    << Change(ResourceRecordSet(name, primary_id, "PRIMARY", primary_alias)) >>

\* The two UPSERT entries of the changes list: the first tagged PRIMARY,
\* the second tagged SECONDARY.
ChangePair(name, primary_alias, secondary_alias, primary_id, secondary_id) ==
    << Change(ResourceRecordSet(name, primary_id, "PRIMARY", primary_alias)),
       Change(ResourceRecordSet(name, secondary_id, "SECONDARY",
                                secondary_alias)) >>

\* Mutant: the flag is ignored, the configured mapping is always written.
ChangesFlagIgnored(primary_is_east, record_name) ==
    ChangePair(record_name,
               AliasTarget(PRIMARY_ALB_ZONE_ID, PRIMARY_ALB_DNS),
               AliasTarget(SECONDARY_ALB_ZONE_ID, SECONDARY_ALB_DNS),
               PRIMARY_SET_ID, SECONDARY_SET_ID)

\* Mutant: the two branches are exchanged.
ChangesInverted(primary_is_east, record_name) ==
    IF primary_is_east
      THEN ChangePair(record_name,
                      AliasTarget(SECONDARY_ALB_ZONE_ID, SECONDARY_ALB_DNS),
                      AliasTarget(PRIMARY_ALB_ZONE_ID, PRIMARY_ALB_DNS),
                      SECONDARY_SET_ID, PRIMARY_SET_ID)
      ELSE ChangePair(record_name,
                      AliasTarget(PRIMARY_ALB_ZONE_ID, PRIMARY_ALB_DNS),
                      AliasTarget(SECONDARY_ALB_ZONE_ID, SECONDARY_ALB_DNS),
                      PRIMARY_SET_ID, SECONDARY_SET_ID)

\* Mutant: the else branch keeps the set ids of the first branch.
ChangesRoleSetIds(primary_is_east, record_name) ==
    IF primary_is_east
      THEN ChangePair(record_name,
                      AliasTarget(PRIMARY_ALB_ZONE_ID, PRIMARY_ALB_DNS),
                      AliasTarget(SECONDARY_ALB_ZONE_ID, SECONDARY_ALB_DNS),
                      PRIMARY_SET_ID, SECONDARY_SET_ID)
      ELSE ChangePair(record_name,
                      AliasTarget(SECONDARY_ALB_ZONE_ID, SECONDARY_ALB_DNS),
                      AliasTarget(PRIMARY_ALB_ZONE_ID, PRIMARY_ALB_DNS),
                      PRIMARY_SET_ID, SECONDARY_SET_ID)

\* Mutant: the else branch leaves secondary_alias on the secondary endpoint.
ChangesSameEndpoint(primary_is_east, record_name) ==
    IF primary_is_east
      THEN ChangePair(record_name,
                      AliasTarget(PRIMARY_ALB_ZONE_ID, PRIMARY_ALB_DNS),
                      AliasTarget(SECONDARY_ALB_ZONE_ID, SECONDARY_ALB_DNS),
                      PRIMARY_SET_ID, SECONDARY_SET_ID)
      ELSE ChangePair(record_name,
                      AliasTarget(SECONDARY_ALB_ZONE_ID, SECONDARY_ALB_DNS),
                      AliasTarget(SECONDARY_ALB_ZONE_ID, SECONDARY_ALB_DNS),
                      SECONDARY_SET_ID, PRIMARY_SET_ID)

\* Mutant: the roles are taken from the record pair as it stands, the
\* endpoint that is PRIMARY now becoming SECONDARY.
ChangesFromZone(primary_is_east, record_name) ==
    IF \E r \in dns : /\ r.Failover = "PRIMARY"
                      /\ r.AliasTarget = AliasTarget(PRIMARY_ALB_ZONE_ID, PRIMARY_ALB_DNS)
      THEN ChangePair(record_name,
                      AliasTarget(SECONDARY_ALB_ZONE_ID, SECONDARY_ALB_DNS),
                      AliasTarget(PRIMARY_ALB_ZONE_ID, PRIMARY_ALB_DNS),
                      SECONDARY_SET_ID, PRIMARY_SET_ID)
      ELSE ChangePair(record_name,
                      AliasTarget(PRIMARY_ALB_ZONE_ID, PRIMARY_ALB_DNS),
                      AliasTarget(SECONDARY_ALB_ZONE_ID, SECONDARY_ALB_DNS),
                      PRIMARY_SET_ID, SECONDARY_SET_ID)

\* The changes list upsert_failover_records builds.
Changes(primary_is_east, record_name) ==
    LET primary_alias ==
            IF primary_is_east
              THEN AliasTarget(PRIMARY_ALB_ZONE_ID, PRIMARY_ALB_DNS)
              ELSE AliasTarget(SECONDARY_ALB_ZONE_ID, SECONDARY_ALB_DNS)
        secondary_alias ==
            IF primary_is_east
              THEN AliasTarget(SECONDARY_ALB_ZONE_ID, SECONDARY_ALB_DNS)
              ELSE AliasTarget(PRIMARY_ALB_ZONE_ID, PRIMARY_ALB_DNS)
        primary_set_id ==
            IF primary_is_east THEN PRIMARY_SET_ID ELSE SECONDARY_SET_ID
        secondary_set_id ==
            IF primary_is_east THEN SECONDARY_SET_ID ELSE PRIMARY_SET_ID
    IN  ChangePair(record_name, primary_alias, secondary_alias,
                   primary_set_id, secondary_set_id)

\* The key under which Route53 holds a resource record set.
Key(rrset) == <<rrset.Name, rrset.Type, rrset.SetIdentifier>>

\* Mutant: the entry is added and the one of its key is kept.
UpsertNoReplace(zone, rrset) == zone \cup { rrset }

\* UPSERT of one resource record set: create, or replace the one of that key.
Upsert(zone, rrset) == { r \in zone : Key(r) # Key(rrset) } \cup { rrset }

\* Mutant: a batch the zone already holds exchanges the roles of its
\* records instead of leaving them.
ApplyChangesExchange(zone, changes) ==
    LET written == { changes[i].ResourceRecordSet : i \in DOMAIN changes }
        kept == { r \in zone : \A w \in written : Key(r) # Key(w) }
        other(role) == IF role = "PRIMARY" THEN "SECONDARY" ELSE "PRIMARY"
    IN  IF written # {} /\ written \subseteq zone
          THEN kept \cup { [w EXCEPT !.Failover = other(@)] : w \in written }
          ELSE kept \cup written

\* Mutant: only the first change of the batch is applied.
ApplyChangesFirstOnly(zone, changes) ==
    IF changes = <<>> THEN zone
    ELSE Upsert(zone, Head(changes).ResourceRecordSet)

\* The hosted zone after a change batch is applied, all of it at once.
RECURSIVE ApplyChanges(_, _)
ApplyChanges(zone, changes) ==
    IF changes = <<>> THEN zone
    ELSE ApplyChanges(Upsert(zone, Head(changes).ResourceRecordSet),
                      Tail(changes))

(* ------------------------- Alarm Interpreter -------------------------- *)

\* parse_sns_event: the message returned (JNull is None) and the log.
parse_sns_event(ev) ==
    LET failed(e) ==
            [msg |-> JNull,
             log |-> <<Exception("Failed to parse SNS event", e)>>]
    IN  IF ~ev.hasRecords THEN failed("KeyError")
        ELSE IF ev.Records = <<>> THEN failed("IndexError")
        ELSE IF ~ev.Records[1].hasSns THEN failed("KeyError")
        ELSE IF ~ev.Records[1].hasMessage THEN failed("KeyError")
        ELSE IF ~ev.Records[1].Message.valid THEN failed("JSONDecodeError")
        ELSE [msg |-> ev.Records[1].Message.json, log |-> <<>>]

\* s.split('.', 1)
split(s) ==
    IF \E i \in 1..Len(s) : s[i] = "."
      THEN LET i == CHOOSE k \in 1..Len(s) :
                      s[k] = "." /\ \A j \in 1..(k - 1) : s[j] # "."
           IN  << SubSeq(s, 1, i - 1), SubSeq(s, i + 1, Len(s)) >>
      ELSE << s >>

\* Mutant: any non-empty alarm name is taken for the primary alarm.
var_is_primary_alarm_AnyName(alarm_name, record_name) ==
    IF Len(split(record_name)) < 2
      THEN [raised |-> "IndexError", value |-> FALSE]
    ELSE [raised |-> "", value |-> PyTruthy(alarm_name)]

\* var_is_primary_alarm: the exception raised ("" when none) and the value.
var_is_primary_alarm(alarm_name, record_name) ==
    IF Len(split(record_name)) < 2
      THEN [raised |-> "IndexError", value |-> FALSE]
    ELSE IF ~PyTruthy(alarm_name)
      THEN [raised |-> "", value |-> FALSE]
    ELSE IF alarm_name.type # "str"
      THEN [raised |-> "TypeError", value |-> FALSE]
    ELSE [raised |-> "", value |-> Contains(PRIMARY_REGION_LABEL, alarm_name.str)]


(* ---------------------- Failover Decision Engine ---------------------- *)

\* The decoded message of an event and its fields.
MsgOf(ev) == parse_sns_event(ev).msg
AlarmNameOf(ev) == MsgOf(ev).AlarmName
NewStateOf(ev) == MsgOf(ev).NewStateValue

\* Mutant: every new state other than ALARM is handled as OK.
HandlerStartElseOk(ev, record_name) ==
    LET parsed == parse_sns_event(ev)
        msg == parsed.msg
        log0 == <<Info("Event")>> \o parsed.log
        done(out, e, entries) ==
            [pc |-> "done", outcome |-> out, exc |-> e, queried |-> <<>>,
             log |-> log0 \o entries]
        query(label, entries) ==
            [pc |-> "health", outcome |-> "none", exc |-> "",
             queried |-> <<label>>, log |-> log0 \o entries]
    IN  IF ~JTruthy(msg)
          THEN done("returned", "", <<Error("No parsed message, aborting")>>)
        ELSE IF msg.type # "object"
          THEN done("raised", "AttributeError", <<>>)
        ELSE
          LET alarm_name == msg.AlarmName
              new_state == msg.NewStateValue
              log1 == <<Info("Alarm changed")>>
              log2 == log1 \o <<Info("Event for primary alarm")>>
              primary == var_is_primary_alarm(alarm_name, record_name)
          IN  IF primary.raised # ""
                THEN done("raised", primary.raised, log1)
              ELSE IF primary.value
                THEN IF new_state = "ALARM"
                       THEN query(SECONDARY_REGION_LABEL, log2)
                     ELSE query(PRIMARY_REGION_LABEL, log2)
              ELSE done("returned", "",
                        log1 \o <<Info("Alarm is not primary alarm; ignoring")>>)

\* Mutant: an ALARM asks for the health of the region being abandoned.
HandlerStartAbandoned(ev, record_name) ==
    LET parsed == parse_sns_event(ev)
        msg == parsed.msg
        log0 == <<Info("Event")>> \o parsed.log
        done(out, e, entries) ==
            [pc |-> "done", outcome |-> out, exc |-> e, queried |-> <<>>,
             log |-> log0 \o entries]
        query(label, entries) ==
            [pc |-> "health", outcome |-> "none", exc |-> "",
             queried |-> <<label>>, log |-> log0 \o entries]
    IN  IF ~JTruthy(msg)
          THEN done("returned", "", <<Error("No parsed message, aborting")>>)
        ELSE IF msg.type # "object"
          THEN done("raised", "AttributeError", <<>>)
        ELSE
          LET alarm_name == msg.AlarmName
              new_state == msg.NewStateValue
              log1 == <<Info("Alarm changed")>>
              log2 == log1 \o <<Info("Event for primary alarm")>>
              primary == var_is_primary_alarm(alarm_name, record_name)
          IN  IF primary.raised # ""
                THEN done("raised", primary.raised, log1)
              ELSE IF primary.value
                THEN IF new_state = "ALARM"
                       THEN query(PRIMARY_REGION_LABEL, log2)
                     ELSE IF new_state = "OK"
                       THEN query(PRIMARY_REGION_LABEL, log2)
                     ELSE done("returned", "",
                               log2 \o <<Info("Unhandled new state")>>)
              ELSE done("returned", "",
                        log1 \o <<Info("Alarm is not primary alarm; ignoring")>>)

\* lambda_handler from its entry to its first blocking call or its end:
\* where the invocation stands then, and what it logged.
HandlerStart(ev, record_name) ==
    LET parsed == parse_sns_event(ev)
        msg == parsed.msg
        log0 == <<Info("Event")>> \o parsed.log
        done(out, e, entries) ==
            [pc |-> "done", outcome |-> out, exc |-> e, queried |-> <<>>,
             log |-> log0 \o entries]
        query(label, entries) ==
            [pc |-> "health", outcome |-> "none", exc |-> "",
             queried |-> <<label>>, log |-> log0 \o entries]
    IN  IF ~JTruthy(msg)
          THEN done("returned", "", <<Error("No parsed message, aborting")>>)
        ELSE IF msg.type # "object"
          THEN done("raised", "AttributeError", <<>>)
        ELSE
          LET alarm_name == msg.AlarmName
              new_state == msg.NewStateValue
              log1 == <<Info("Alarm changed")>>
              log2 == log1 \o <<Info("Event for primary alarm")>>
              primary == var_is_primary_alarm(alarm_name, record_name)
          IN  IF primary.raised # ""
                THEN done("raised", primary.raised, log1)
              ELSE IF primary.value
                THEN IF new_state = "ALARM"
                       THEN query(SECONDARY_REGION_LABEL, log2)
                     ELSE IF new_state = "OK"
                       THEN query(PRIMARY_REGION_LABEL, log2)
                     ELSE done("returned", "",
                               log2 \o <<Info("Unhandled new state")>>)
              ELSE done("returned", "",
                        log1 \o <<Info("Alarm is not primary alarm; ignoring")>>)

\* lambda_handler from the return of the metrics query to the Route53 call
\* or its end: the Health Oracle's value, the decision and the log.
HandlerHealth(new_state, resp, record_name) ==
    LET h == get_latest_region_health(resp)
        done(entries) ==
            [pc |-> "done", outcome |-> "returned", sample |-> h.value,
             published |-> <<>>, log |-> h.log \o entries]
        publish(primary_is_east, entries) ==
            [pc |-> "publish", outcome |-> "none", sample |-> h.value,
             published |-> << [primary_is_east |-> primary_is_east,
                               Changes |-> Changes(primary_is_east, record_name)] >>,
             log |-> h.log \o entries
                     \o <<Info("Applying Route53 ChangeResourceRecordSets")>>]
    IN  IF new_state = "ALARM"
          THEN LET log1 == <<Info("Secondary region latest health datapoint")>>
               IN  IF ~h.value.present
                     THEN done(log1 \o <<Warning("No datapoint for secondary; aborting switch")>>)
                   ELSE IF Unhealthy(h.value)
                     THEN done(log1 \o <<Error("Secondary appears unhealthy; aborting failover")>>)
                   ELSE publish(FALSE, log1)
          ELSE LET log1 == <<Info("Primary latest health datapoint")>>
               IN  IF ~h.value.present \/ Unhealthy(h.value)
                     THEN done(log1 \o <<Warning("Primary not healthy enough to revert. Skipping revert.")>>)
                   ELSE publish(TRUE, log1)

\* The last n elements of a sequence.
LastN(s, n) == IF Len(s) <= n THEN s ELSE SubSeq(s, Len(s) - n + 1, Len(s))

(* ------------------------------ the zone ------------------------------ *)

\* The record pair as first configured: each endpoint under its own set id,
\* the primary region's endpoint PRIMARY.
ConfiguredZone(record_name) ==
    { ResourceRecordSet(record_name, PRIMARY_SET_ID, "PRIMARY",
                        AliasTarget(PRIMARY_ALB_ZONE_ID, PRIMARY_ALB_DNS)),
      ResourceRecordSet(record_name, SECONDARY_SET_ID, "SECONDARY",
                        AliasTarget(SECONDARY_ALB_ZONE_ID, SECONDARY_ALB_DNS)) }

\* The record pair an earlier failover left.
FailedOverZone(record_name) ==
    { ResourceRecordSet(record_name, SECONDARY_SET_ID, "PRIMARY",
                        AliasTarget(SECONDARY_ALB_ZONE_ID, SECONDARY_ALB_DNS)),
      ResourceRecordSet(record_name, PRIMARY_SET_ID, "SECONDARY",
                        AliasTarget(PRIMARY_ALB_ZONE_ID, PRIMARY_ALB_DNS)) }

InitialZones(record_name) ==
    { {}, ConfiguredZone(record_name), FailedOverZone(record_name) }

(* ------------------------------ actions ------------------------------- *)

Idle == [p \in Procs |-> "idle"]
NoResponse == [ok |-> TRUE, Datapoints |-> <<>>]

Init ==
    /\ RECORD_NAME \in FqdnRecordNames
    /\ dns \in InitialZones(RECORD_NAME)
    /\ history = <<>>
    /\ pc = Idle
    /\ event = [p \in Procs |-> Envelope(FALSE, <<>>)]
    /\ queried = [p \in Procs |-> <<>>]
    /\ response = [p \in Procs |-> NoResponse]
    /\ sample = [p \in Procs |-> None]
    /\ published = [p \in Procs |-> <<>>]
    /\ change = [p \in Procs |-> "none"]
    /\ outcome = [p \in Procs |-> "none"]
    /\ exc = [p \in Procs |-> ""]
    /\ log = [p \in Procs |-> <<>>]

\* An event arrives and invocation p runs up to its first blocking call.
Invoke(p, ev) ==
    /\ pc[p] = "idle"
    /\ LET r == HandlerStart(ev, RECORD_NAME)
       IN  /\ pc' = [pc EXCEPT ![p] = r.pc]
           /\ outcome' = [outcome EXCEPT ![p] = r.outcome]
           /\ exc' = [exc EXCEPT ![p] = r.exc]
           /\ queried' = [queried EXCEPT ![p] = r.queried]
           /\ log' = [log EXCEPT ![p] = r.log]
    /\ event' = [event EXCEPT ![p] = ev]
    /\ UNCHANGED <<RECORD_NAME, dns, history, response, sample, published,
                   change>>

\* The metrics query of invocation p ends; p runs up to the Route53 call.
HealthReply(p, resp) ==
    /\ pc[p] = "health"
    /\ LET r == HandlerHealth(NewStateOf(event[p]), resp, RECORD_NAME)
       IN  /\ pc' = [pc EXCEPT ![p] = r.pc]
           /\ outcome' = [outcome EXCEPT ![p] = r.outcome]
           /\ sample' = [sample EXCEPT ![p] = r.sample]
           /\ published' = [published EXCEPT ![p] = r.published]
           /\ log' = [log EXCEPT ![p] = log[p] \o r.log]
    /\ response' = [response EXCEPT ![p] = resp]
    /\ UNCHANGED <<RECORD_NAME, dns, history, event, queried, change, exc>>

\* Mutant: a failure of the change call is caught and logged, and the
\* handler returns normally.
Route53ReplySwallowed(p, ok) ==
    /\ pc[p] = "publish"
    /\ LET call == published[p][Len(published[p])]
       IN  IF ok
             THEN /\ dns' = ApplyChanges(dns, call.Changes)
                  /\ history' =
                       LastN(Append(history,
                                    [primary_is_east |-> call.primary_is_east,
                                     Changes |-> call.Changes,
                                     dns |-> dns']),
                             HistoryLen)
                  /\ log' = [log EXCEPT ![p] = log[p] \o
                              << Info("Route53 response") >>]
             ELSE /\ log' = [log EXCEPT ![p] = log[p] \o
                              << Exception("Route53 change failed", "ClientError") >>]
                  /\ UNCHANGED <<dns, history>>
    /\ outcome' = [outcome EXCEPT ![p] = "returned"]
    /\ change' = [change EXCEPT ![p] = IF ok THEN "ok" ELSE "failed"]
    /\ pc' = [pc EXCEPT ![p] = "done"]
    /\ UNCHANGED <<RECORD_NAME, event, queried, response, sample, published, exc>>

\* route53.change_resource_record_sets of invocation p ends: the batch is
\* applied as a whole, or the call raises and the zone is left as it was.
Route53Reply(p, ok) ==
    /\ pc[p] = "publish"
    /\ LET call == published[p][Len(published[p])]
       IN  IF ok
             THEN /\ dns' = ApplyChanges(dns, call.Changes)
                  /\ history' =
                       LastN(Append(history,
                                    [primary_is_east |-> call.primary_is_east,
                                     Changes |-> call.Changes,
                                     dns |-> dns']),
                             HistoryLen)
                  /\ outcome' = [outcome EXCEPT ![p] = "returned"]
                  /\ exc' = exc
                  /\ log' = [log EXCEPT ![p] = log[p] \o
                              << Info("Route53 response"),
                                 IF call.primary_is_east
                                   THEN Info("Reverted to primary as PRIMARY")
                                   ELSE Info("Switched to secondary as PRIMARY") >>]
             ELSE /\ outcome' = [outcome EXCEPT ![p] = "raised"]
                  /\ exc' = [exc EXCEPT ![p] = "ClientError"]
                  /\ UNCHANGED <<dns, history, log>>
    /\ change' = [change EXCEPT ![p] = IF ok THEN "ok" ELSE "failed"]
    /\ pc' = [pc EXCEPT ![p] = "done"]
    /\ UNCHANGED <<RECORD_NAME, event, queried, response, sample, published>>

\* The invocation is over; nothing of it is kept.
Return(p) ==
    /\ pc[p] = "done"
    /\ pc' = [pc EXCEPT ![p] = "idle"]
    /\ event' = [event EXCEPT ![p] = Envelope(FALSE, <<>>)]
    /\ queried' = [queried EXCEPT ![p] = <<>>]
    /\ response' = [response EXCEPT ![p] = NoResponse]
    /\ sample' = [sample EXCEPT ![p] = None]
    /\ published' = [published EXCEPT ![p] = <<>>]
    /\ change' = [change EXCEPT ![p] = "none"]
    /\ outcome' = [outcome EXCEPT ![p] = "none"]
    /\ exc' = [exc EXCEPT ![p] = ""]
    /\ log' = [log EXCEPT ![p] = <<>>]
    /\ UNCHANGED <<RECORD_NAME, dns, history>>

\* One invocation at a time, every event and every metrics response.
Next ==
    \/ \E ev \in Events : Invoke(1, ev)
    \/ \E resp \in Responses : HealthReply(1, resp)
    \/ \E ok \in BOOLEAN : Route53Reply(1, ok)
    \/ Return(1)

Spec == Init /\ [][Next]_vars

\* Overlapping invocations of well-formed alarm events.
NextConcurrent ==
    \E p \in Procs :
        \/ \E ev \in AlarmEvents : Invoke(p, ev)
        \/ \E resp \in ShortResponses : HealthReply(p, resp)
        \/ \E ok \in BOOLEAN : Route53Reply(p, ok)
        \/ Return(p)

SpecConcurrent == Init /\ [][NextConcurrent]_vars

\* Every value RECORD_NAME may be configured with: a name with dots, and a
\* single-label name.
AnyRecordNames == FqdnRecordNames \cup { <<"x">> }

InitAnyRecordName ==
    /\ RECORD_NAME \in AnyRecordNames
    /\ dns \in InitialZones(RECORD_NAME)
    /\ history = <<>>
    /\ pc = Idle
    /\ event = [p \in Procs |-> Envelope(FALSE, <<>>)]
    /\ queried = [p \in Procs |-> <<>>]
    /\ response = [p \in Procs |-> NoResponse]
    /\ sample = [p \in Procs |-> None]
    /\ published = [p \in Procs |-> <<>>]
    /\ change = [p \in Procs |-> "none"]
    /\ outcome = [p \in Procs |-> "none"]
    /\ exc = [p \in Procs |-> ""]
    /\ log = [p \in Procs |-> <<>>]

\* One invocation at a time, under every configured record name.
SpecAnyRecordName == InitAnyRecordName /\ [][Next]_vars


(* ------------------------------- claims ------------------------------- *)

\* The event of invocation p decodes into an alarm document.
Decoded(p) ==
    pc[p] # "idle" /\ JTruthy(MsgOf(event[p])) /\ MsgOf(event[p]).type = "object"

\* The decoded alarm name is a string holding the primary region label.
NamesPrimary(p) ==
    /\ Decoded(p)
    /\ AlarmNameOf(event[p]).type = "str"
    /\ Contains(PRIMARY_REGION_LABEL, AlarmNameOf(event[p]).str)

\* Invocation p has taken a step in this transition and is still running
\* or has just ended.
Stepped(p) == pc'[p] # pc[p] /\ pc'[p] # "idle"

\* Invocation p has its answer from the Health Oracle.
Answered(p) == pc[p] \in {"publish", "done"} /\ queried[p] # <<>>

\* Invocation p ended normally without any call and without a publish.
NoOp(p) ==
    pc[p] = "done" /\ outcome[p] = "returned" /\ published[p] = <<>>

\* The Failover tags under which a zone holds an endpoint.
RolesOf(zone, alias) == { r.Failover : r \in { x \in zone : x.AliasTarget = alias } }

PrimaryEndpoint == AliasTarget(PRIMARY_ALB_ZONE_ID, PRIMARY_ALB_DNS)
SecondaryEndpoint == AliasTarget(SECONDARY_ALB_ZONE_ID, SECONDARY_ALB_DNS)

\* The role-to-endpoint mapping of a zone.
RoleMap(zone) == { <<r.Failover, r.AliasTarget>> : r \in zone }

\* C1: an invocation whose decoded alarm name does not hold the primary
\* region label (a missing name included) queries no health and publishes
\* nothing, whatever the new state is, and none of its steps changes the
\* DNS record pair.
C1_NoCallsState ==
    \A p \in Procs :
        (Decoded(p) /\ ~NamesPrimary(p)) =>
            /\ queried[p] = <<>>
            /\ published[p] = <<>>
            /\ pc[p] = "done"
C1_NoCallsStep ==
    \A p \in Procs :
        (Stepped(p) /\ (Decoded(p) /\ ~NamesPrimary(p))') => dns' = dns
\* C1: both parts, in every state and in every step.
C1_NonPrimaryAlarmIgnored == []C1_NoCallsState /\ [][C1_NoCallsStep]_vars

C1_Witness ==
    /\ Decoded(1) /\ ~NamesPrimary(1)
    /\ AlarmNameOf(event[1]) = PyStr(<<"d", "-", "w", "e">>)
    /\ NewStateOf(event[1]) = "ALARM"
    /\ pc[1] = "done" /\ outcome[1] = "returned"

\* The metrics query of a response gave no usable value: it failed, it
\* returned no datapoint, or no datapoint it returned carries an Average.
NoTelemetry(resp) ==
    \/ ~resp.ok
    \/ \A i \in DOMAIN resp.Datapoints : ~resp.Datapoints[i].Average.present

\* C2: when the Health Oracle returns absent in an invocation on the
\* primary alarm (ALARM or OK), the invocation publishes nothing and ends
\* as a no-op, and the step that took the answer leaves the DNS record
\* pair unchanged.
C2_AbsentState ==
    \A p \in Procs :
        (Answered(p) /\ (NoTelemetry(response[p]) \/ ~sample[p].present)) =>
            /\ ~sample[p].present
            /\ NoOp(p)
C2_AbsentStep ==
    \A p \in Procs :
        (Stepped(p) /\ (Answered(p) /\ ~sample[p].present)') => dns' = dns
\* C2: both parts, in every state and in every step.
C2_MissingTelemetryNeverSwitches == []C2_AbsentState /\ [][C2_AbsentStep]_vars

C2_Witness ==
    /\ NamesPrimary(1) /\ NewStateOf(event[1]) = "OK"
    /\ Answered(1)
    /\ response[1].ok /\ Len(response[1].Datapoints) = 1
    /\ ~response[1].Datapoints[1].Average.present
    /\ NoOp(1)

\* C3: the threshold is strict.  A health value of exactly 0.5 publishes
\* nothing, for ALARM and for OK; an invocation publishes only if the
\* value it read, for the region its publish makes PRIMARY, is present and
\* strictly greater than 0.5.
C3_StrictThreshold ==
    \A p \in Procs :
        /\ (Answered(p) /\ sample[p] = Value(50)) => NoOp(p)
        /\ published[p] # <<>> =>
            /\ Answered(p)
            /\ sample[p].present /\ sample[p].value > 50
            /\ Len(published[p]) = 1
            /\ queried[p] = IF published[p][1].primary_is_east
                              THEN <<PRIMARY_REGION_LABEL>>
                              ELSE <<SECONDARY_REGION_LABEL>>

C3_Witness ==
    /\ NamesPrimary(1) /\ NewStateOf(event[1]) = "ALARM"
    /\ Answered(1) /\ sample[1] = Value(50)
    /\ NoOp(1)

\* C4: ALARM on the primary alarm with a present secondary health value
\* greater than 0.5 issues exactly one publish, with the flag false; once
\* that publish succeeded the secondary endpoint is the one tagged PRIMARY
\* and the primary endpoint is tagged SECONDARY.
C4_FailoverPublishes ==
    \A p \in Procs :
        ( /\ NamesPrimary(p) /\ NewStateOf(event[p]) = "ALARM"
          /\ Answered(p) /\ sample[p].present /\ sample[p].value > 50 ) =>
            /\ Len(published[p]) = 1
            /\ published[p][1].primary_is_east = FALSE
            /\ queried[p] = <<SECONDARY_REGION_LABEL>>
            /\ (pc[p] = "done" /\ outcome[p] = "returned") =>
                 /\ RolesOf(dns, SecondaryEndpoint) = {"PRIMARY"}
                 /\ RolesOf(dns, PrimaryEndpoint) = {"SECONDARY"}

C4_Witness ==
    /\ NamesPrimary(1) /\ NewStateOf(event[1]) = "ALARM"
    /\ Answered(1) /\ sample[1] = Value(51)
    /\ pc[1] = "done" /\ outcome[1] = "returned"
    /\ RolesOf(dns, SecondaryEndpoint) = {"PRIMARY"}

\* C5: OK on the primary alarm with a present primary health value greater
\* than 0.5 issues exactly one publish, with the flag true; once that
\* publish succeeded the record pair is the configured mapping (primary
\* endpoint PRIMARY, secondary endpoint SECONDARY), whatever it was before.
C5_RevertPublishes ==
    \A p \in Procs :
        ( /\ NamesPrimary(p) /\ NewStateOf(event[p]) = "OK"
          /\ Answered(p) /\ sample[p].present /\ sample[p].value > 50 ) =>
            /\ Len(published[p]) = 1
            /\ published[p][1].primary_is_east = TRUE
            /\ queried[p] = <<PRIMARY_REGION_LABEL>>
            /\ (pc[p] = "done" /\ outcome[p] = "returned") =>
                 RoleMap(dns) = { <<"PRIMARY", PrimaryEndpoint>>,
                                  <<"SECONDARY", SecondaryEndpoint>> }

\* A revert that found the pair failed over.
C5_Witness ==
    /\ NamesPrimary(1) /\ NewStateOf(event[1]) = "OK"
    /\ Answered(1) /\ sample[1] = Value(90)
    /\ pc[1] = "done" /\ outcome[1] = "returned"
    /\ Len(history) >= 2
    /\ ~history[Len(history) - 1].primary_is_east
    /\ RoleMap(dns) = { <<"PRIMARY", PrimaryEndpoint>>,
                        <<"SECONDARY", SecondaryEndpoint>> }

\* Every publish call an invocation has issued.
Calls == UNION { { published[p][i] : i \in DOMAIN published[p] } : p \in Procs }

\* The resource record sets of a publish call.
Entries(call) ==
    { call.Changes[i].ResourceRecordSet : i \in DOMAIN call.Changes }

\* C6 as stated: in every publish the entry tagged PRIMARY carries the
\* primary set id and the entry tagged SECONDARY the secondary set id.
C6_SetIdTracksRole ==
    \A call \in Calls : \A r \in Entries(call) :
        /\ r.Failover = "PRIMARY" => r.SetIdentifier = PRIMARY_SET_ID
        /\ r.Failover = "SECONDARY" => r.SetIdentifier = SECONDARY_SET_ID

\* C6 amended: the set identifier tracks the endpoint, not the role.  In
\* every publish, for both values of the flag, the entry bound to the
\* primary endpoint carries the primary set id and the entry bound to the
\* secondary endpoint carries the secondary set id; the flag only decides
\* which of the two is tagged PRIMARY, so with the flag false the entry
\* tagged PRIMARY is the secondary endpoint under the secondary set id and
\* the entry tagged SECONDARY is the primary endpoint under the primary
\* set id.
C6_SetIdTracksEndpoint ==
    \A call \in Calls :
        /\ Len(call.Changes) = 2
        /\ \A r \in Entries(call) :
            /\ r.AliasTarget = PrimaryEndpoint => r.SetIdentifier = PRIMARY_SET_ID
            /\ r.AliasTarget = SecondaryEndpoint => r.SetIdentifier = SECONDARY_SET_ID
            /\ r.AliasTarget \in {PrimaryEndpoint, SecondaryEndpoint}
        /\ { <<r.Failover, r.AliasTarget>> : r \in Entries(call) } =
             IF call.primary_is_east
               THEN { <<"PRIMARY", PrimaryEndpoint>>, <<"SECONDARY", SecondaryEndpoint>> }
               ELSE { <<"PRIMARY", SecondaryEndpoint>>, <<"SECONDARY", PrimaryEndpoint>> }

C6_Witness ==
    /\ pc[1] = "publish"
    /\ Len(published[1]) = 1
    /\ ~published[1][1].primary_is_east
    /\ \E r \in Entries(published[1][1]) :
         r.Failover = "PRIMARY" /\ r.SetIdentifier = SECONDARY_SET_ID

\* C7: once a publish has succeeded, under every interleaving of
\* invocations, the DNS record pair holds exactly two entries under two
\* distinct set identifiers, exactly one tagged PRIMARY and exactly one
\* tagged SECONDARY, bound to the two distinct configured endpoints.
C7_OnePrimaryOneSecondary ==
    history # <<>> =>
        /\ Cardinality(dns) = 2
        /\ Cardinality({ Key(r) : r \in dns }) = 2
        /\ Cardinality({ r \in dns : r.Failover = "PRIMARY" }) = 1
        /\ Cardinality({ r \in dns : r.Failover = "SECONDARY" }) = 1
        /\ { r.AliasTarget : r \in dns } = {PrimaryEndpoint, SecondaryEndpoint}
        /\ PrimaryEndpoint # SecondaryEndpoint

\* Two overlapping invocations have both published, with different flags.
C7_Witness ==
    /\ pc[1] = "done" /\ outcome[1] = "returned" /\ published[1] # <<>>
    /\ pc[2] = "done" /\ outcome[2] = "returned" /\ published[2] # <<>>
    /\ published[1][1].primary_is_east # published[2][1].primary_is_east
    /\ Len(history) >= 2

\* C8: three successive successful publishes with the flag true, false,
\* true leave the role-to-endpoint mapping the first of them left, which is
\* the configured one (primary endpoint PRIMARY, secondary endpoint
\* SECONDARY).
C8_RoundTrip ==
    \A i \in 1..(Len(history) - 2) :
        ( /\ history[i].primary_is_east
          /\ ~history[i + 1].primary_is_east
          /\ history[i + 2].primary_is_east ) =>
            /\ RoleMap(history[i + 2].dns) = RoleMap(history[i].dns)
            /\ RoleMap(history[i + 2].dns) =
                 { <<"PRIMARY", PrimaryEndpoint>>, <<"SECONDARY", SecondaryEndpoint>> }
            /\ history[i + 2].dns = history[i].dns

C8_Witness ==
    /\ Len(history) >= 3
    /\ history[Len(history) - 2].primary_is_east
    /\ ~history[Len(history) - 1].primary_is_east
    /\ history[Len(history)].primary_is_east
    /\ RoleMap(history[Len(history) - 1].dns) # RoleMap(dns)
    /\ dns = history[Len(history)].dns

\* The envelope does not decode into an alarm document.
Malformed(ev) ==
    \/ ~ev.hasRecords
    \/ ev.Records = <<>>
    \/ ~ev.Records[1].hasSns
    \/ ~ev.Records[1].hasMessage
    \/ ~ev.Records[1].Message.valid
    \/ ev.Records[1].Message.json.type # "object"

\* C9 as stated: an invocation on an envelope that does not decode into an
\* alarm document (a Message that is a JSON string, number or list
\* included) ends normally as a no-op: no exception, no health query, no
\* publish.
C9_MalformedIsNoOp ==
    \A p \in Procs :
        (pc[p] # "idle" /\ Malformed(event[p])) =>
            /\ NoOp(p)
            /\ exc[p] = ""
            /\ queried[p] = <<>>

\* C10: when the metrics query fails, the Health Oracle returns absent,
\* the failure is in the log, and the invocation ends as a no-op without
\* error and without a publish.
C10_QueryFailureContained ==
    \A p \in Procs :
        ~response[p].ok =>
            /\ sample[p] = None
            /\ \E i \in DOMAIN log[p] :
                 /\ log[p][i].level = "ERROR"
                 /\ log[p][i].msg = "Failed to get metric"
                 /\ log[p][i].exc # ""
            /\ NoOp(p)
            /\ exc[p] = ""

C10_Witness ==
    /\ NamesPrimary(1) /\ NewStateOf(event[1]) = "ALARM"
    /\ Answered(1) /\ ~response[1].ok
    /\ NoOp(1)

\* The Average fields of the datapoints that carry the latest Timestamp.
LatestAverages(datapoints) ==
    { datapoints[i].Average :
        i \in { k \in DOMAIN datapoints :
                  \A j \in DOMAIN datapoints :
                      datapoints[j].Timestamp <= datapoints[k].Timestamp } }

\* A health value that lets a publish through.
Healthy(h) == h.present /\ h.value > HealthThreshold

\* C11: when the metrics query returns datapoints, the Health Oracle
\* returns the Average of a datapoint with the latest Timestamp, whatever
\* the values and the order returned; the decision is taken on it alone, so
\* nothing is published when no datapoint of the latest Timestamp is
\* healthy, even if an older one is.
C11_LatestTimestampDecides ==
    \A p \in Procs :
        (Answered(p) /\ response[p].ok /\ response[p].Datapoints # <<>>) =>
            /\ sample[p] \in LatestAverages(response[p].Datapoints)
            /\ (\A h \in LatestAverages(response[p].Datapoints) : ~Healthy(h))
                 => NoOp(p)

\* The latest datapoint is returned first and is unhealthy; the older one,
\* returned last, is healthy and has the greater value.
C11_Witness ==
    /\ NamesPrimary(1) /\ NewStateOf(event[1]) = "ALARM"
    /\ Answered(1)
    /\ response[1].ok
    /\ response[1].Datapoints =
         << [Timestamp |-> 2, Average |-> Value(50)],
            [Timestamp |-> 1, Average |-> Value(90)] >>
    /\ sample[1] = Value(50)
    /\ NoOp(1)

\* C12: when the DNS change call fails, the invocation ends with the
\* error raised into the caller after exactly one publish attempt; the
\* failing step leaves the DNS record pair as it was, and the invocation
\* does nothing more: its only further step is its end, and another
\* attempt takes a new event.
C12_FailureState ==
    \A p \in Procs :
        change[p] = "failed" =>
            /\ pc[p] = "done"
            /\ outcome[p] = "raised" /\ exc[p] = "ClientError"
            /\ Len(published[p]) = 1
C12_FailureStep ==
    \A p \in Procs :
        /\ (change[p] # "failed" /\ change'[p] = "failed") => dns' = dns
        /\ (change[p] = "failed" /\ pc'[p] # pc[p]) =>
             /\ pc'[p] = "idle" /\ published'[p] = <<>>
             /\ dns' = dns
\* C12: both parts, in every state and in every step.
C12_PublishFailureSurfaced == []C12_FailureState /\ [][C12_FailureStep]_vars

\* A failed failover attempt has left the configured pair in place.
C12_Witness ==
    /\ NamesPrimary(1) /\ NewStateOf(event[1]) = "ALARM"
    /\ sample[1] = Value(51)
    /\ change[1] = "failed"
    /\ RolesOf(dns, PrimaryEndpoint) = {"PRIMARY"}

\* Invocation p has decided on a no-op: its event did not parse, its alarm
\* is not the primary one, its new state is not handled, or the health
\* value it read is absent or not healthy.
NoOpDecided(p) ==
    /\ pc[p] # "idle"
    /\ \/ ~JTruthy(MsgOf(event[p]))
       \/ Decoded(p) /\ ~NamesPrimary(p)
       \/ NamesPrimary(p) /\ NewStateOf(event[p]) \notin {"ALARM", "OK"}
       \/ Answered(p) /\ ~Healthy(sample[p])

\* Invocation p has decided on a switch.
SwitchDecided(p) ==
    /\ NamesPrimary(p) /\ NewStateOf(event[p]) \in {"ALARM", "OK"}
    /\ Answered(p) /\ Healthy(sample[p])

\* C13: an invocation issues at most one health query and at most one DNS
\* batch: none when it decides on a no-op, exactly one, holding both
\* entries, when it decides on a switch.  The record pair changes only in
\* the one Route53 call of an invocation that decided on a switch.
C13_CallsState ==
    \A p \in Procs :
        /\ Len(queried[p]) <= 1
        /\ Len(published[p]) <= 1
        /\ NoOpDecided(p) => (published[p] = <<>> /\ change[p] = "none")
        /\ SwitchDecided(p) =>
            /\ Len(published[p]) = 1
            /\ Len(published[p][1].Changes) = 2
            /\ Cardinality(Entries(published[p][1])) = 2
            /\ { r.Failover : r \in Entries(published[p][1]) } =
                 {"PRIMARY", "SECONDARY"}
C13_CallsStep ==
    /\ dns' # dns =>
         \E p \in Procs :
             SwitchDecided(p) /\ change[p] = "none" /\ change'[p] = "ok"
    /\ \A p \in Procs :
         /\ (Stepped(p) /\ NoOpDecided(p)') => dns' = dns
         /\ (change[p] # "none" /\ pc'[p] # pc[p]) => dns' = dns
\* C13: both parts, in every state and in every step.
C13_AtMostOneBatch == []C13_CallsState /\ [][C13_CallsStep]_vars

\* A revert that went through, with its one query and its one batch.
C13_Witness ==
    /\ SwitchDecided(1) /\ NewStateOf(event[1]) = "OK"
    /\ pc[1] = "done" /\ change[1] = "ok"
    /\ Len(queried[1]) = 1 /\ Len(published[1]) = 1
    /\ dns = Entries(published[1][1])

\* The record sets of the batch a successful publish wrote.
Written(h) == { h.Changes[i].ResourceRecordSet : i \in DOMAIN h.Changes }

\* C14: overlapping invocations are not mutually excluded and the last
\* write wins.  Whenever two invocations both wait on their publish call,
\* either call may be applied next; a publish that is applied leaves
\* exactly the pair of its own batch, and the record pair is always the
\* pair of the publish applied last, never a mixture of two batches.
C14_NoMutex ==
    \A p, q \in Procs :
        (p # q /\ pc[p] = "publish" /\ pc[q] = "publish") =>
            /\ ENABLED Route53Reply(p, TRUE)
            /\ ENABLED Route53Reply(q, TRUE)
C14_LastState ==
    history # <<>> => dns = Written(history[Len(history)])
C14_WriteStep ==
    \A p \in Procs :
        (change[p] = "none" /\ change'[p] = "ok") =>
            /\ dns' = Entries(published[p][1])
            /\ history'[Len(history')].Changes = published[p][1].Changes
\* C14: all parts, in every state and in every step.
C14_LastWriteWins ==
    [](C14_NoMutex /\ C14_LastState) /\ [][C14_WriteStep]_vars

\* An ALARM and an OK invocation both published; the OK one was invoked
\* while the ALARM one was still running, and the ALARM one wrote last.
C14_Witness ==
    /\ SwitchDecided(1) /\ NewStateOf(event[1]) = "ALARM"
    /\ SwitchDecided(2) /\ NewStateOf(event[2]) = "OK"
    /\ change[1] = "ok" /\ change[2] = "ok"
    /\ Len(history) >= 2
    /\ history[Len(history) - 1].Changes = published[2][1].Changes
    /\ history[Len(history)].Changes = published[1][1].Changes
    /\ dns = Entries(published[1][1])
    /\ dns # Entries(published[2][1])

\* C15: publishing is idempotent.  A publish with the flag of the publish
\* applied just before it writes the same batch and leaves the record pair
\* exactly as it was; consecutive publishes of one flag left the same pair.
C15_SameFlagState ==
    \A i \in 1..(Len(history) - 1) :
        history[i].primary_is_east = history[i + 1].primary_is_east =>
            /\ history[i].Changes = history[i + 1].Changes
            /\ history[i].dns = history[i + 1].dns
C15_SameFlagStep ==
    \A p \in Procs :
        (/\ change[p] = "none" /\ change'[p] = "ok"
         /\ history # <<>>
         /\ history[Len(history)].primary_is_east
                = published[p][1].primary_is_east) =>
            /\ published[p][1].Changes = history[Len(history)].Changes
            /\ dns' = dns
\* C15: both parts, in every state and in every step.
C15_PublishIdempotent == []C15_SameFlagState /\ [][C15_SameFlagStep]_vars

\* A second failover in a row has been published over the first.
C15_Witness ==
    /\ SwitchDecided(1) /\ NewStateOf(event[1]) = "ALARM"
    /\ change[1] = "ok"
    /\ Len(history) >= 2
    /\ ~history[Len(history)].primary_is_east
    /\ ~history[Len(history) - 1].primary_is_east
    /\ history[Len(history) - 1].dns = dns
    /\ dns = Entries(published[1][1])

\* Invocation p has taken its decision.
Decided(p) == pc[p] \in {"publish", "done"}

\* The decision of an invocation that has decided.
Decision(p) ==
    IF published[p] = <<>> THEN "no-op"
    ELSE IF published[p][1].primary_is_east THEN "publish true"
    ELSE "publish false"

\* C16: the decision and the batch are a function of the event and the
\* health sample of the invocation only.  Two invocations that have decided
\* on the same event with the same sample took the same decision, asked the
\* Health Oracle the same question and built the same batch, whatever the
\* record pair was when each of them decided and whatever ran before.
C16_DecisionIsFunction ==
    \A p, q \in Procs :
        (/\ Decided(p) /\ Decided(q)
         /\ event[p] = event[q]
         /\ sample[p] = sample[q]) =>
            /\ Decision(p) = Decision(q)
            /\ published[p] = published[q]
            /\ queried[p] = queried[q]

\* Two failovers on one event and one sample: the first is published and
\* has changed the record pair, the second was decided and waits on its call.
C16_Witness ==
    /\ event[1] = event[2] /\ sample[1] = sample[2]
    /\ NewStateOf(event[1]) = "ALARM"
    /\ pc[1] = "done" /\ change[1] = "ok"
    /\ pc[2] = "publish"
    /\ Decision(1) = "publish false" /\ Decision(2) = "publish false"
    /\ history # <<>>
    /\ dns = FailedOverZone(RECORD_NAME)

\* The event of invocation p is on the primary alarm and its new state is
\* neither ALARM nor OK.
Unhandled(p) ==
    NamesPrimary(p) /\ NewStateOf(event[p]) \notin {"ALARM", "OK"}

\* C17: a primary-alarm event whose new state is neither ALARM nor OK
\* (INSUFFICIENT_DATA, any other value, none at all) is a logged no-op: the
\* invocation ends normally with the unhandled state logged, without a
\* health query and without a publish, and leaves the record pair as it is.
C17_UnhandledState ==
    \A p \in Procs :
        Unhandled(p) =>
            /\ NoOp(p)
            /\ queried[p] = <<>>
            /\ change[p] = "none"
            /\ \E i \in DOMAIN log[p] : log[p][i] = Info("Unhandled new state")
C17_UnhandledStep ==
    \A p \in Procs : (Stepped(p) /\ Unhandled(p)') => dns' = dns
\* C17: both parts, in every state and in every step.
C17_UnhandledStateIsNoOp == []C17_UnhandledState /\ [][C17_UnhandledStep]_vars

C17_Witness ==
    /\ NamesPrimary(1) /\ NewStateOf(event[1]) = "INSUFFICIENT_DATA"
    /\ NoOp(1)
    /\ log[1][Len(log[1])] = Info("Unhandled new state")

\* C18: the health gate looks at the incoming region only.  An ALARM
\* invocation asks for the secondary region label and nothing else, an OK
\* invocation for the primary region label and nothing else; the one
\* sample so read decides, so no other region's health enters the decision.
C18_IncomingRegionOnly ==
    \A p \in Procs :
        /\ Len(queried[p]) <= 1
        /\ (NamesPrimary(p) /\ NewStateOf(event[p]) = "ALARM") =>
               queried[p] = <<SECONDARY_REGION_LABEL>>
        /\ (NamesPrimary(p) /\ NewStateOf(event[p]) = "OK") =>
               queried[p] = <<PRIMARY_REGION_LABEL>>
        /\ Answered(p) => (Decision(p) # "no-op" <=> Healthy(sample[p]))

\* A failover decided on the secondary region's sample alone.
C18_Witness ==
    /\ NamesPrimary(1) /\ NewStateOf(event[1]) = "ALARM"
    /\ queried[1] = <<SECONDARY_REGION_LABEL>>
    /\ Answered(1) /\ Healthy(sample[1])
    /\ Decision(1) = "publish false"

\* The log of invocation p holds an ERROR entry carrying an exception.
LoggedError(p) ==
    \E i \in DOMAIN log[p] : log[p][i].level = "ERROR" /\ log[p][i].exc # ""

\* C19, the publish part: an invocation whose publish call failed has ended
\* with the failure in its log.
C19_PublishFailureLogged ==
    \A p \in Procs : change[p] = "failed" => LoggedError(p)

\* C19 as stated: every failure leaves a log entry with the error detail
\* before the invocation ends, be it an input that does not decode into an
\* alarm document, a failed health query or a failed publish call.
C19_EveryFailureLogged ==
    \A p \in Procs :
        pc[p] = "done" =>
            /\ Malformed(event[p]) =>
                 \E i \in DOMAIN log[p] : log[p][i].level = "ERROR"
            /\ (queried[p] # <<>> /\ ~response[p].ok) => LoggedError(p)
            /\ change[p] = "failed" => LoggedError(p)

\* The log of invocation p holds the given INFO entry.
Logged(p, msg) == \E i \in DOMAIN log[p] : log[p][i] = Info(msg)

\* C20 as stated: classification depends on the alarm name and the primary
\* region label only.  Under every configured record name, an invocation
\* that decoded an alarm document whose name is a string or is missing ends
\* its classification without an exception, as primary exactly when the
\* name holds the primary region label and as not primary otherwise.
C20_ClassifierTotal ==
    \A p \in Procs :
        (Decoded(p) /\ AlarmNameOf(event[p]).type \in {"str", "NoneType"}) =>
            /\ exc[p] \notin {"IndexError", "TypeError"}
            /\ NamesPrimary(p) => Logged(p, "Event for primary alarm")
            /\ ~NamesPrimary(p) => Logged(p, "Alarm is not primary alarm; ignoring")

=============================================================================
